---- MODULE Spec2Model ----
(***************************************************************************)
(* Model of callisto's QuickBuilder (src/callisto/builders/quick_builder.cpp).*)
(* One run of QuickBuilder::QuickBuilder + QuickBuilder::build is a walk of *)
(* pc from "idle" to "done"; the environment (configuration, resources,     *)
(* level files, files under .cache) changes through the Env* actions.       *)
(***************************************************************************)
EXTENDS Integers, Sequences, FiniteSets, TLC

\* ------------------------------------------------------------------ bounds
MaxTime == 3        \* timestamps are 1..MaxTime, NoTime is "file missing"
MaxChanges == 1     \* environment events (changes, interruptions) per behaviour
MaxRuns == 2        \* quick-build invocations per behaviour

\* --------------------------------------------------------------- constants
BUILD_REPORT_VERSION == 4
NoTime == 0         \* std::nullopt of optional<uint64_t> last_write_time
Unset == 0          \* an unset configuration variable / JSON null
NoName == ""        \* Descriptor without a name

NumAddr == 5
Addr == 0 .. (NumAddr - 1)

\* ------------------------------------------------------------- descriptors
GFX == [symbol |-> "Graphics", name |-> NoName]
PATCH == [symbol |-> "Patch", name |-> "p.asm"]
MODULE_M == [symbol |-> "Module", name |-> "m.asm"]
MODULE_N == [symbol |-> "Module", name |-> "n.asm"]

Paths == {"gfx", "lm.exe", "p.asm", "m.asm"}
ConfigKeys == {"project_rom", "lunar_magic_path"}
ConfigValues == {1, 2}
RomSizes == {Unset, 1, 2}
Times == {NoTime} \cup (1 .. MaxTime)

\* build orders a configuration can hold
BaseOrders == { <<GFX, PATCH, MODULE_M>>, <<PATCH, GFX, MODULE_M>> }
Orders ==
  BaseOrders \cup { <<GFX, PATCH>>, <<GFX, PATCH, MODULE_M, MODULE_M>>,
                    <<GFX, PATCH, MODULE_N>> }

\* files a levels folder can hold: name |-> <<extension, level number>>;
\* level 0 stands for a file whose level number cannot be determined
LevelFileNames == {"1.mwl", "2.mwl", "bad.mwl", "1.txt"}
Extension(f) == IF f = "1.txt" THEN ".txt" ELSE ".mwl"
LevelNumber(f) == CASE f = "1.mwl" -> 1 [] f = "2.mwl" -> 2 [] f = "1.txt" -> 1 [] OTHER -> 0

\* ------------------------------------------------------------ the ROM
\* A ROM byte records which insertable wrote it last and from which version
\* of its source (the source's timestamp); Clean is an untouched byte.
Clean == <<"", 0>>
CleanBytes == [a \in Addr |-> Clean]
NoRom == [exists |-> FALSE, bytes |-> CleanBytes, marker |-> FALSE]

\* ----------------------------------------------- the insertables (opaque)
\* main resource of an insertable
SourceOf(d) ==
  CASE d.symbol = "Graphics" -> "gfx"
    [] d.symbol = "Patch" -> "p.asm"
    [] OTHER -> "m.asm"

\* Patch::getHijacks: the (address, length) ranges the patch wrote, a
\* function of the patch source
PatchHijacks(t) ==
  CASE t = 1 -> << <<1, 2>> >>
    [] t = 2 -> << <<2, 1>>, <<0, 2>> >>
    [] t = 3 -> << <<1, 1>> >>
    [] OTHER -> << <<1, 2>>, <<3, 0>> >>

AddressSet(hijacks) ==
  UNION { { hijacks[k][1] + j : j \in 0 .. (hijacks[k][2] - 1) } : k \in 1 .. Len(hijacks) }

\* addresses a module occupies, a function of the module source
ModuleWrites(t) == IF t % 2 = 1 THEN {3} ELSE {4}

\* the bytes an insertion writes
WriteSet(d, files) ==
  CASE d.symbol = "Graphics" -> {0, 1}
    [] d.symbol = "Patch" -> AddressSet(PatchHijacks(files["p.asm"]))
    [] OTHER -> ModuleWrites(files["m.asm"])

\* Insertable::insert on a ROM
InsertInto(bytes, d, files) ==
  [a \in Addr |-> IF a \in WriteSet(d, files)
                  THEN <<d.symbol, files[SourceOf(d)]>> ELSE bytes[a]]

\* Insertable::getConfigurationDependencies
ConfigDep(cfg, k, pol) == [config_keys |-> k, value |-> cfg.keys[k], policy |-> pol]
getConfigurationDependencies(d, cfg) ==
  CASE d.symbol = "Graphics" ->
         << ConfigDep(cfg, "project_rom", "REINSERT"),
            ConfigDep(cfg, "lunar_magic_path", "REBUILD") >>
    [] d.symbol = "Patch" -> << >>
    [] OTHER -> << ConfigDep(cfg, "project_rom", "REINSERT") >>

\* the set Insertable::insertWithDependencies returns, as the list it is
\* stored as
ResDep(files, p, pol) == [dependent_path |-> p, last_write_time |-> files[p], policy |-> pol]
determineDependencies(d, files) ==
  CASE d.symbol = "Graphics" ->
         << ResDep(files, "gfx", "REINSERT"), ResDep(files, "lm.exe", "REBUILD") >>
    [] d.symbol = "Patch" ->
         IF files["p.asm"] = 1
         THEN << ResDep(files, "p.asm", "REINSERT") >>
         ELSE << ResDep(files, "p.asm", "REINSERT"), ResDep(files, "gfx", "REINSERT") >>
    [] OTHER -> << ResDep(files, "m.asm", "REINSERT") >>

\* ------------------------------------------------------------ full build
\* the clean-build path: every entry of the build order inserted in order
\* into a clean ROM
RECURSIVE FullBuildBytes(_, _, _)
FullBuildBytes(order, files, n) ==
  IF n = 0 THEN CleanBytes
  ELSE InsertInto(FullBuildBytes(order, files, n - 1), order[n], files)

FullBuildEntry(d, cfg, files) ==
  [ descriptor |-> d,
    configuration_dependencies |-> getConfigurationDependencies(d, cfg),
    resource_dependencies |-> determineDependencies(d, files),
    hijacks |-> IF d.symbol = "Patch" THEN PatchHijacks(files["p.asm"]) ELSE << >> ]

FullBuildReport(cfg, files, version, levels) ==
  [ file_format_version |-> version,
    build_order |-> cfg.build_order,
    rom_size |-> cfg.rom_size,
    dependencies |-> [k \in 1 .. Len(cfg.build_order) |->
                        FullBuildEntry(cfg.build_order[k], cfg, files)],
    inserted_levels |-> levels,
    module_outputs |-> [m \in {"m.asm"} |-> {"m.out"}] ]

EmptyReport ==
  [ file_format_version |-> 0, build_order |-> << >>, rom_size |-> Unset,
    dependencies |-> << >>, inserted_levels |-> {},
    module_outputs |-> [m \in {"m.asm"} |-> {}] ]

\* ------------------------------------------------------- the checks
\* Configuration::getByKey
getByKey(cfg, k) == cfg.keys[k]

\* QuickBuilder::checkBuildReportFormat
checkBuildReportFormat(rep) ==
  IF rep.file_format_version # BUILD_REPORT_VERSION THEN "MustRebuild" ELSE "ok"

\* QuickBuilder::checkRebuildRomSize; config.rom_size.getOrThrow() throws
\* when the variable is unset, and it is evaluated whenever the first
\* disjunct is false
checkRebuildRomSize(rep, cfg) ==
  IF rep.rom_size = Unset /\ cfg.rom_size # Unset THEN "MustRebuild"
  ELSE IF cfg.rom_size = Unset THEN "ConfigException"
  ELSE IF rep.rom_size # cfg.rom_size THEN "MustRebuild"
  ELSE "ok"

\* the loop of QuickBuilder::checkBuildOrderChange from position k on
RECURSIVE CompareOrderFrom(_, _, _)
CompareOrderFrom(new_order, old_order, k) ==
  IF k > Len(new_order) THEN "ok"
  ELSE IF k > Len(old_order) THEN "out_of_range"
  ELSE IF old_order[k] # new_order[k] THEN "MustRebuild"
  ELSE CompareOrderFrom(new_order, old_order, k + 1)

\* mutant: the size comparison of lines 197-199 is left out
checkBuildOrderChange_NoLength(rep, cfg) ==
  CompareOrderFrom(cfg.build_order, rep.build_order, 1)

\* QuickBuilder::checkBuildOrderChange
checkBuildOrderChange(rep, cfg) ==
  IF Len(cfg.build_order) # Len(rep.build_order) THEN "MustRebuild"
  ELSE CompareOrderFrom(cfg.build_order, rep.build_order, 1)

\* mutant: the extension test of line 228 is left out
NewLevelNumbers_AnyExtension(folder) ==
  { LevelNumber(f) : f \in folder.files }

\* the level numbers the directory scan collects
NewLevelNumbers(folder) ==
  { LevelNumber(f) : f \in { g \in folder.files : Extension(g) = ".mwl" } }

\* QuickBuilder::checkProblematicLevelChanges
checkProblematicLevelChanges(folder, old_level_numbers) ==
  IF ~folder.exists THEN "InsertionException"
  ELSE IF \E f \in folder.files : Extension(f) = ".mwl" /\ LevelNumber(f) = 0
       THEN "InsertionException"
  ELSE LET old_missing_from_new ==
             Cardinality({ l \in old_level_numbers : l \notin NewLevelNumbers(folder) })
       IN IF old_missing_from_new # 0 THEN "MustRebuild" ELSE "ok"

\* mutant: only the first entry of the report is examined
checkRebuildConfigDependencies_FirstEntryOnly(rep, cfg) ==
  IF \E e \in 1 .. Len(rep.dependencies) :
       /\ e = 1
       /\ \E c \in 1 .. Len(rep.dependencies[e].configuration_dependencies) :
            LET dep == rep.dependencies[e].configuration_dependencies[c]
            IN dep.policy = "REBUILD" /\ dep.value # getByKey(cfg, dep.config_keys)
  THEN "MustRebuild" ELSE "ok"

\* QuickBuilder::checkRebuildConfigDependencies
checkRebuildConfigDependencies(rep, cfg) ==
  IF \E e \in 1 .. Len(rep.dependencies) :
       \E c \in 1 .. Len(rep.dependencies[e].configuration_dependencies) :
         LET dep == rep.dependencies[e].configuration_dependencies[c]
         IN dep.policy = "REBUILD" /\ dep.value # getByKey(cfg, dep.config_keys)
  THEN "MustRebuild" ELSE "ok"

\* mutant: the scan starts at the first entry whatever starting_index is
checkRebuildResourceDependencies_FromStart(dependencies, files, starting_index) ==
  IF \E e \in 1 .. Len(dependencies) :
       \E r \in 1 .. Len(dependencies[e].resource_dependencies) :
         LET dep == dependencies[e].resource_dependencies[r]
         IN dep.policy = "REBUILD" /\ files[dep.dependent_path] # dep.last_write_time
  THEN "MustRebuild" ELSE "ok"

\* QuickBuilder::checkRebuildResourceDependencies
checkRebuildResourceDependencies(dependencies, files, starting_index) ==
  IF \E e \in starting_index .. Len(dependencies) :
       \E r \in 1 .. Len(dependencies[e].resource_dependencies) :
         LET dep == dependencies[e].resource_dependencies[r]
         IN dep.policy = "REBUILD" /\ files[dep.dependent_path] # dep.last_write_time
  THEN "MustRebuild" ELSE "ok"

\* QuickBuilder::checkReinsertConfigDependencies: position of the first
\* REINSERT dependency whose value changed, 0 when there is none
RECURSIVE checkReinsertConfigDependencies(_, _, _)
checkReinsertConfigDependencies(config_dependencies, cfg, k) ==
  IF k > Len(config_dependencies) THEN 0
  ELSE IF config_dependencies[k].policy = "REINSERT"
          /\ config_dependencies[k].value # getByKey(cfg, config_dependencies[k].config_keys)
       THEN k
  ELSE checkReinsertConfigDependencies(config_dependencies, cfg, k + 1)

\* mutant: a dependency whose file is missing now is skipped
RECURSIVE checkReinsertResourceDependencies_SkipsMissing(_, _, _)
checkReinsertResourceDependencies_SkipsMissing(resource_dependencies, files, k) ==
  IF k > Len(resource_dependencies) THEN 0
  ELSE IF resource_dependencies[k].policy = "REINSERT"
          /\ files[resource_dependencies[k].dependent_path] # NoTime
          /\ files[resource_dependencies[k].dependent_path]
               # resource_dependencies[k].last_write_time
       THEN k
  ELSE checkReinsertResourceDependencies_SkipsMissing(resource_dependencies, files, k + 1)

\* QuickBuilder::checkReinsertResourceDependencies: position of the first
\* REINSERT dependency whose timestamp changed, 0 when there is none
RECURSIVE checkReinsertResourceDependencies(_, _, _)
checkReinsertResourceDependencies(resource_dependencies, files, k) ==
  IF k > Len(resource_dependencies) THEN 0
  ELSE IF resource_dependencies[k].policy = "REINSERT"
          /\ files[resource_dependencies[k].dependent_path]
               # resource_dependencies[k].last_write_time
       THEN k
  ELSE checkReinsertResourceDependencies(resource_dependencies, files, k + 1)

\* lines 65-89 of QuickBuilder::build: must_reinsert of an entry
MustReinsert(entry, cfg, files) ==
  IF checkReinsertConfigDependencies(entry.configuration_dependencies, cfg, 1) # 0
  THEN TRUE
  ELSE checkReinsertResourceDependencies(entry.resource_dependencies, files, 1) # 0

\* mutant: only the first address of an old range is looked up
RangeGoneBad_FirstOnly(address, number, j, new_written_addresses) ==
  j # number /\ (address + j) \notin new_written_addresses

\* the inner loop of QuickBuilder::hijacksGoneBad over one old range
RECURSIVE RangeGoneBad(_, _, _, _)
RangeGoneBad(address, number, j, new_written_addresses) ==
  IF j = number THEN FALSE
  ELSE IF (address + j) \notin new_written_addresses THEN TRUE
  ELSE RangeGoneBad(address, number, j + 1, new_written_addresses)

\* the outer loop of QuickBuilder::hijacksGoneBad over the old ranges
RECURSIVE OldGoneBad(_, _, _)
OldGoneBad(old_hijacks, k, new_written_addresses) ==
  IF k > Len(old_hijacks) THEN FALSE
  ELSE IF RangeGoneBad(old_hijacks[k][1], old_hijacks[k][2], 0, new_written_addresses)
       THEN TRUE
  ELSE OldGoneBad(old_hijacks, k + 1, new_written_addresses)

\* the first loop of QuickBuilder::hijacksGoneBad
NewWrittenAddresses(new_hijacks) ==
  UNION { { new_hijacks[k][1] + j : j \in 0 .. (new_hijacks[k][2] - 1) } :
          k \in 1 .. Len(new_hijacks) }

\* mutant: the old and the new hijacks change places
hijacksGoneBad_Swapped(old_hijacks, new_hijacks) ==
  OldGoneBad(new_hijacks, 1, NewWrittenAddresses(old_hijacks))

\* QuickBuilder::hijacksGoneBad
hijacksGoneBad(old_hijacks, new_hijacks) ==
  OldGoneBad(old_hijacks, 1, NewWrittenAddresses(new_hijacks))

\* lines 68-73 and 81-87: the message that tells why an entry is reinserted
ReinsertMessage(entry, cfg, files, k) ==
  IF checkReinsertConfigDependencies(entry.configuration_dependencies, cfg, 1) # 0
  THEN << [op |-> "config_changed", at |-> k] >>
  ELSE IF checkReinsertResourceDependencies(entry.resource_dependencies, files, 1) # 0
       THEN << [op |-> "resource_changed", at |-> k] >>
       ELSE << >>

\* ---------------------------------------------------------------- state
VARIABLES
  config,          \* the Configuration handed to build
  files,           \* path |-> last write time, NoTime when missing
  levelsFolder,    \* [exists, files] of the configured levels folder
  diskReport,      \* [exists, content]: the build report file
  outputRom,       \* [exists, bytes, marker]: config.output_rom
  tempRom,         \* [exists, bytes, marker]: the temporary ROM
  cleanupFile,     \* [exists, addrs]: .cache/cleanup/m.addr
  oldSymbols,      \* files under the old-symbols directory
  moduleDir,       \* files under the user module output directory
  linked,          \* number of linkOutputRomToProjectGraphics calls done
  pc,              \* position of the run
  report,          \* QuickBuilder::report
  i,               \* index of the entry the loop is at (1-based)
  any_work_done,
  failed_dependency_report,
  result,          \* how the run ended
  log,             \* the steps the run has executed, in order
  run,             \* number of runs started
  changes,         \* number of environment changes made
  changed,         \* the environment changed since this run started
  prev,            \* the run before this one: its result, whether it lost a
                   \* dependency report, and whether the environment changed
                   \* between its start and the start of this run
  start,           \* [report, rom] on disk when this run started
  hijackCall       \* [old, new, returned]: one call of hijacksGoneBad on its own

envVars == <<config, files, levelsFolder, cleanupFile, oldSymbols, moduleDir>>
diskVars == <<diskReport, outputRom, tempRom, linked>>
runVars == <<pc, report, i, any_work_done, failed_dependency_report, result, log>>
histVars == <<run, changes, changed, prev, start>>
callVars == <<hijackCall>>
vars == <<envVars, diskVars, runVars, histVars, callVars>>

AllFiles(t) == [p \in Paths |-> t]

\* no call of hijacksGoneBad on its own
NoCall == [old |-> << >>, new |-> << >>, returned |-> ""]

\* the project after a full build with configured rom_size rs, build order o
\* and report format version v; edited tells whether the graphics were
\* edited after that build
StartState(rs, o, v, edited) ==
  /\ config = [rom_size |-> rs, build_order |-> o, levels |-> TRUE,
               keys |-> [k \in ConfigKeys |-> 1]]
  /\ diskReport = [exists |-> TRUE,
                   content |-> FullBuildReport(config, AllFiles(1), v, {1})]
  /\ outputRom = [exists |-> TRUE,
                  bytes |-> FullBuildBytes(o, AllFiles(1), Len(o)),
                  marker |-> TRUE]
  /\ files = IF edited THEN [AllFiles(1) EXCEPT !["gfx"] = 2] ELSE AllFiles(1)
  \* level 1 was inserted by the last build, level 2 was added after it
  /\ levelsFolder = [exists |-> TRUE, files |-> {"1.mwl", "2.mwl", "1.txt"}]
  /\ tempRom = NoRom
  /\ cleanupFile = [exists |-> TRUE, addrs |-> ModuleWrites(1)]
  /\ oldSymbols = {"m.out"}
  /\ moduleDir = {}
  /\ linked = 0
  /\ pc = "idle"
  /\ report = EmptyReport
  /\ i = 0
  /\ any_work_done = FALSE
  /\ failed_dependency_report = FALSE
  /\ result = ""
  /\ log = << >>
  /\ run = 0
  /\ changes = 0
  /\ changed = FALSE
  /\ prev = [result |-> "", changed |-> FALSE, lost |-> FALSE]
  /\ start = [report |-> diskReport, rom |-> outputRom]

Init ==
  /\ \E rs \in {Unset, 1}, o \in BaseOrders, edited \in BOOLEAN,
        v \in {BUILD_REPORT_VERSION - 1, BUILD_REPORT_VERSION} :
       \* one report of an older engine and one edited project are enough
       /\ (v # BUILD_REPORT_VERSION \/ edited) => (rs = 1 /\ o = <<GFX, PATCH, MODULE_M>>)
       /\ ~(v # BUILD_REPORT_VERSION /\ edited)
       /\ StartState(rs, o, v, edited)
  /\ hijackCall = NoCall

\* ------------------------------------------------------ the environment
Between == pc = "idle"

EnvChange ==
  /\ changes < MaxChanges
  /\ changes' = changes + 1
  /\ changed' = TRUE
  /\ UNCHANGED <<run, prev, start>>

\* the timestamp a file gets when it is written once more
NextTime(t) == (t % MaxTime) + 1

\* a resource is written or deleted between two runs; the patch may also be
\* replaced by any other version of it
EnvTouch ==
  /\ Between
  /\ EnvChange
  /\ \E p \in Paths, t \in Times :
       /\ t # files[p]
       /\ p # "p.asm" => t \in {NoTime, NextTime(files[p])}
       /\ files' = [files EXCEPT ![p] = t]
  /\ UNCHANGED <<config, levelsFolder, cleanupFile, oldSymbols, moduleDir>>
  /\ UNCHANGED <<diskVars, runVars>>
  /\ UNCHANGED callVars

\* a resource is written during a run, after the loop has processed an entry
EnvWriteDuringRun ==
  /\ pc = "loop"
  /\ i > 1
  /\ EnvChange
  /\ \E p \in Paths :
       files[p] # NoTime /\ files' = [files EXCEPT ![p] = NextTime(@)]
  /\ UNCHANGED <<config, levelsFolder, cleanupFile, oldSymbols, moduleDir>>
  /\ UNCHANGED <<diskVars, runVars>>
  /\ UNCHANGED callVars

\* the user edits the configuration between two runs
EnvConfig ==
  /\ Between
  /\ EnvChange
  /\ \/ \E k \in ConfigKeys, v \in ConfigValues :
          v # config.keys[k] /\ config' = [config EXCEPT !.keys[k] = v]
     \/ \E rs \in RomSizes : rs # config.rom_size /\ config' = [config EXCEPT !.rom_size = rs]
     \/ \E o \in Orders : o # config.build_order /\ config' = [config EXCEPT !.build_order = o]
     \/ config' = [config EXCEPT !.levels = ~config.levels]
  /\ UNCHANGED <<files, levelsFolder, cleanupFile, oldSymbols, moduleDir>>
  /\ UNCHANGED <<diskVars, runVars>>
  /\ UNCHANGED callVars

\* a level file is added or removed, or the folder is removed
EnvLevels ==
  /\ Between
  /\ EnvChange
  /\ levelsFolder.exists
  /\ \/ \E f \in { g \in LevelFileNames : Extension(g) = ".mwl" } :
          levelsFolder' = [levelsFolder EXCEPT
                             !.files = IF f \in @ THEN @ \ {f} ELSE @ \cup {f}]
     \/ levelsFolder' = [exists |-> FALSE, files |-> {}]
  /\ UNCHANGED <<config, files, cleanupFile, oldSymbols, moduleDir>>
  /\ UNCHANGED <<diskVars, runVars>>
  /\ UNCHANGED callVars

\* a file the previous build left behind is deleted
EnvDelete ==
  /\ Between
  /\ EnvChange
  /\ \/ diskReport.exists /\ diskReport' = [exists |-> FALSE, content |-> EmptyReport]
        /\ UNCHANGED <<outputRom, cleanupFile, oldSymbols>>
     \/ outputRom.exists /\ outputRom' = NoRom
        /\ UNCHANGED <<diskReport, cleanupFile, oldSymbols>>
     \/ cleanupFile.exists /\ cleanupFile' = [exists |-> FALSE, addrs |-> {}]
        /\ UNCHANGED <<diskReport, outputRom, oldSymbols>>
     \/ oldSymbols # {} /\ oldSymbols' = {}
        /\ UNCHANGED <<diskReport, outputRom, cleanupFile>>
  /\ UNCHANGED <<config, files, levelsFolder, moduleDir, tempRom, linked>>
  /\ UNCHANGED runVars
  /\ UNCHANGED callVars

\* ------------------------------------------------------------- the run
Call(op, k) == [op |-> op, at |-> k]

\* an exception leaves build: the run is over
Throw(e) == pc' = "done" /\ result' = e

\* mutant: the constructor does not look for the file
ReportMissing_Never == FALSE

\* line 6: !fs::exists(build_report_path)
ReportMissing == ~diskReport.exists

\* QuickBuilder::QuickBuilder
Construct ==
  /\ Between
  /\ run < MaxRuns
  /\ run' = run + 1
  /\ prev' = [prev EXCEPT !.changed = changed]
  /\ changed' = FALSE
  /\ start' = [report |-> diskReport, rom |-> outputRom]
  /\ log' = << Call("QuickBuilder", 0) >>
  /\ i' = 0
  /\ any_work_done' = FALSE
  /\ failed_dependency_report' = FALSE
  /\ linked' = 0
  /\ IF ReportMissing
     THEN report' = EmptyReport /\ Throw("MustRebuild")
     ELSE report' = diskReport.content /\ pc' = "checkRom" /\ result' = ""
  /\ UNCHANGED <<envVars, diskReport, outputRom, tempRom, changes>>
  /\ UNCHANGED callVars

\* one of the per-report checks of build, lines 25-52
Check(at, name, outcome, next) ==
  /\ pc = at
  /\ log' = Append(log, Call(name, 0))
  /\ IF outcome = "ok" THEN pc' = next /\ result' = result ELSE Throw(outcome)
  /\ UNCHANGED <<envVars, diskVars, histVars, report, any_work_done, failed_dependency_report>>

CheckRom ==
  /\ Check("checkRom", "exists", IF outputRom.exists THEN "ok" ELSE "MustRebuild",
           "checkRomSize")
  /\ i' = i
  /\ UNCHANGED callVars

CheckRomSize ==
  /\ Check("checkRomSize", "checkRebuildRomSize", checkRebuildRomSize(report, config),
           "checkFormat")
  /\ i' = i
  /\ UNCHANGED callVars

CheckFormat ==
  /\ Check("checkFormat", "checkBuildReportFormat", checkBuildReportFormat(report),
           "checkOrder")
  /\ i' = i
  /\ UNCHANGED callVars

CheckOrder ==
  /\ Check("checkOrder", "checkBuildOrderChange", checkBuildOrderChange(report, config),
           "checkLevels")
  /\ i' = i
  /\ UNCHANGED callVars

CheckLevels ==
  /\ pc = "checkLevels"
  /\ IF config.levels
     THEN Check("checkLevels", "checkProblematicLevelChanges",
                checkProblematicLevelChanges(levelsFolder, report.inserted_levels),
                "checkConfigDeps")
     ELSE /\ pc' = "checkConfigDeps"
          /\ UNCHANGED <<envVars, diskVars, histVars, report, any_work_done,
                         failed_dependency_report, result, log>>
  /\ i' = i
  /\ UNCHANGED callVars

\* lines 49-60: the last per-report check, then the loop is set up
CheckConfigDeps ==
  /\ Check("checkConfigDeps", "checkRebuildConfigDependencies",
           checkRebuildConfigDependencies(report, config), "loop")
  /\ i' = IF checkRebuildConfigDependencies(report, config) = "ok" THEN 1 ELSE i
  /\ UNCHANGED callVars

Entry == report.dependencies[i]

\* lines 61-89: the loop condition, the REBUILD resource check from entry i
\* on, and the classification of entry i
Classify ==
  /\ pc = "loop"
  /\ IF i > Len(report.dependencies)
     THEN pc' = "commit" /\ result' = result /\ log' = log
     ELSE IF checkRebuildResourceDependencies(report.dependencies, files, i) # "ok"
          THEN /\ Throw("MustRebuild")
               /\ log' = Append(log, Call("classify", i))
          ELSE /\ pc' = IF MustReinsert(Entry, config, files) THEN "reinsert" ELSE "unchanged"
               /\ log' = Append(log, Call("classify", i))
                           \o ReinsertMessage(Entry, config, files, i)
               /\ result' = result
  /\ UNCHANGED <<envVars, diskVars, histVars, report, i, any_work_done,
                 failed_dependency_report>>
  /\ UNCHANGED callVars

\* mutant: the previous ROM is copied at every reinsertion
CopyToTemp_EveryTime ==
  /\ pc = "reinsert"
  /\ any_work_done' = TRUE
  /\ tempRom' = outputRom
  /\ log' = Append(log, Call("copy", i))
  /\ pc' = IF Entry.descriptor.symbol = "Module" THEN "clean" ELSE "insert"
  /\ UNCHANGED <<envVars, histVars, diskReport, outputRom, linked, report, i,
                 failed_dependency_report, result>>
  /\ UNCHANGED callVars

\* lines 91-95: the previous ROM is copied on the first reinsertion
CopyToTemp ==
  /\ pc = "reinsert"
  /\ any_work_done' = TRUE
  /\ IF ~any_work_done
     THEN /\ tempRom' = outputRom
          /\ log' = Append(log, Call("copy", i))
     ELSE UNCHANGED <<tempRom, log>>
  /\ pc' = IF Entry.descriptor.symbol = "Module" THEN "clean" ELSE "insert"
  /\ UNCHANGED <<envVars, histVars, diskReport, outputRom, linked, report, i,
                 failed_dependency_report, result>>
  /\ UNCHANGED callVars

\* asar applying "autoclean $A" for every address A of the cleanup file
Autoclean(bytes, addrs) == [a \in Addr |-> IF a \in addrs THEN Clean ELSE bytes[a]]

\* mutant: the buffer is written back whether or not the patch was applied
CleanModule_WritesBackAlways ==
  /\ pc = "clean"
  /\ log' = Append(log, Call("cleanModule", i))
  /\ IF ~cleanupFile.exists
     THEN Throw("MustRebuild") /\ UNCHANGED tempRom
     ELSE \E asar \in {"ok", "init_failed", "patch_failed"} :
            CASE asar = "init_failed" -> Throw("ToolNotFoundException") /\ UNCHANGED tempRom
              [] asar = "patch_failed" ->
                   /\ Throw("MustRebuild")
                   /\ tempRom' = [tempRom EXCEPT !.bytes = Autoclean(@, cleanupFile.addrs)]
              [] OTHER ->
                   /\ tempRom' = [tempRom EXCEPT !.bytes = Autoclean(@, cleanupFile.addrs)]
                   /\ pc' = "insert"
                   /\ result' = result
  /\ UNCHANGED <<envVars, histVars, diskReport, outputRom, linked, report, i,
                 any_work_done, failed_dependency_report>>
  /\ UNCHANGED callVars

\* QuickBuilder::cleanModule
CleanModule ==
  /\ pc = "clean"
  /\ log' = Append(log, Call("cleanModule", i))
  /\ IF ~cleanupFile.exists
     THEN Throw("MustRebuild") /\ UNCHANGED tempRom
     ELSE \E asar \in {"ok", "init_failed", "patch_failed"} :
            CASE asar = "init_failed" -> Throw("ToolNotFoundException") /\ UNCHANGED tempRom
              [] asar = "patch_failed" -> Throw("MustRebuild") /\ UNCHANGED tempRom
              [] OTHER ->
                   /\ tempRom' = [tempRom EXCEPT !.bytes = Autoclean(@, cleanupFile.addrs)]
                   /\ pc' = "insert"
                   /\ result' = result
  /\ UNCHANGED <<envVars, histVars, diskReport, outputRom, linked, report, i,
                 any_work_done, failed_dependency_report>>
  /\ UNCHANGED callVars

\* what inserting descriptor d leaves outside the ROM
InsertSideEffects(d) ==
  IF d.symbol = "Module"
  THEN /\ cleanupFile' = [exists |-> TRUE, addrs |-> ModuleWrites(files["m.asm"])]
       /\ moduleDir' = moduleDir \cup {"m.out"}
  ELSE UNCHANGED <<cleanupFile, moduleDir>>

\* mutant: the resource dependencies returned by the insertable are dropped
WithDependencies_KeepsResources(entry, d) ==
  [entry EXCEPT !.configuration_dependencies = getConfigurationDependencies(d, config)]

\* mutant: the new dependencies are appended to the old lists
WithDependencies_Merges(entry, d) ==
  [entry EXCEPT !.configuration_dependencies = @ \o getConfigurationDependencies(d, config),
                !.resource_dependencies = @ \o determineDependencies(d, files)]

\* lines 117-126: the entry gets the new dependency lists
WithDependencies(entry, d) ==
  [entry EXCEPT !.configuration_dependencies = getConfigurationDependencies(d, config),
                !.resource_dependencies = determineDependencies(d, files)]

\* lines 133-145: the hijack check of a reinserted patch
AfterHijacks(entry, d, calls) ==
  IF d.symbol # "Patch"
  THEN /\ report' = [report EXCEPT !.dependencies[i] = entry]
       /\ log' = calls
       /\ pc' = "loop" /\ i' = i + 1 /\ result' = result
  ELSE LET new_hijacks == PatchHijacks(files["p.asm"])
       IN /\ log' = Append(calls, Call("getHijacks", i))
          /\ IF hijacksGoneBad(entry.hijacks, new_hijacks)
             THEN /\ report' = [report EXCEPT !.dependencies[i] = entry]
                  /\ Throw("MustRebuild") /\ i' = i
             ELSE /\ report' = [report EXCEPT !.dependencies[i] =
                                                [entry EXCEPT !.hijacks = new_hijacks]]
                  /\ pc' = "loop" /\ i' = i + 1 /\ result' = result

\* mutant: the lost dependency report is forgotten
DependencyReportLost_Forgotten == FALSE

\* lines 107 and 113: failed_dependency_report.has_value()
DependencyReportLost == failed_dependency_report

\* lines 104-145: the insertable is constructed, initialised and inserted
Insert ==
  /\ pc = "insert"
  /\ LET d == Entry.descriptor
         inited == Append(log, Call("init", i))
     IN IF files[SourceOf(d)] = NoTime
        THEN /\ Throw("ResourceNotFoundException")
             /\ log' = inited
             /\ UNCHANGED <<tempRom, cleanupFile, moduleDir, report, i,
                            failed_dependency_report>>
        ELSE \E outcome \in {"ok", "NoDependencyReportFound", "InsertionException"} :
               CASE outcome = "InsertionException" ->
                      /\ Throw("InsertionException")
                      /\ log' = Append(inited,
                                  Call(IF DependencyReportLost THEN "insert"
                                       ELSE "insertWithDependencies", i))
                      /\ UNCHANGED <<tempRom, cleanupFile, moduleDir, report, i,
                                     failed_dependency_report>>
                 [] outcome = "NoDependencyReportFound" ->
                      /\ ~DependencyReportLost
                      /\ failed_dependency_report' = TRUE
                      /\ tempRom' = [tempRom EXCEPT !.bytes = InsertInto(@, d, files)]
                      /\ InsertSideEffects(d)
                      /\ AfterHijacks(Entry, d,
                           Append(inited, Call("insertWithDependencies", i)))
                 [] OTHER ->
                      /\ UNCHANGED failed_dependency_report
                      /\ tempRom' = [tempRom EXCEPT !.bytes = InsertInto(@, d, files)]
                      /\ InsertSideEffects(d)
                      /\ IF DependencyReportLost
                         THEN AfterHijacks(Entry, d, Append(inited, Call("insert", i)))
                         ELSE AfterHijacks(WithDependencies(Entry, d), d,
                                Append(inited, Call("insertWithDependencies", i)))
  /\ UNCHANGED <<config, files, levelsFolder, oldSymbols>>
  /\ UNCHANGED <<histVars, diskReport, outputRom, linked, any_work_done>>
  /\ UNCHANGED callVars

\* mutant: a missing old output is skipped instead of forcing a rebuild
copyOldModuleOutput_SkipsMissing(module_output_paths) ==
  /\ moduleDir' = moduleDir \cup (module_output_paths \cap oldSymbols)
  /\ pc' = "loop" /\ i' = i + 1 /\ result' = result

\* QuickBuilder::copyOldModuleOutput
copyOldModuleOutput(module_output_paths) ==
  IF \E f \in module_output_paths : f \notin oldSymbols
  THEN /\ Throw("MustRebuild") /\ i' = i
       /\ moduleDir' = moduleDir
  ELSE /\ moduleDir' = moduleDir \cup module_output_paths
       /\ pc' = "loop" /\ i' = i + 1 /\ result' = result

\* lines 147-157: an entry that is up to date
Unchanged ==
  /\ pc = "unchanged"
  /\ IF Entry.descriptor.symbol = "Module"
     THEN /\ log' = Append(log, Call("copyOldModuleOutput", i))
          /\ copyOldModuleOutput(report.module_outputs[Entry.descriptor.name])
     ELSE /\ pc' = "loop" /\ i' = i + 1 /\ result' = result
          /\ UNCHANGED <<moduleDir, log>>
  /\ UNCHANGED <<config, files, levelsFolder, cleanupFile, oldSymbols>>
  /\ UNCHANGED <<diskVars, histVars, report, any_work_done, failed_dependency_report>>
  /\ UNCHANGED callVars

\* createBuildReport: the report that is persisted at commit
createBuildReport(cfg, dependencies, rep) ==
  [ file_format_version |-> BUILD_REPORT_VERSION,
    build_order |-> cfg.build_order,
    rom_size |-> cfg.rom_size,
    dependencies |-> dependencies,
    inserted_levels |-> rep.inserted_levels,
    module_outputs |-> rep.module_outputs ]

\* mutant: the report is written also when a dependency report was lost
Commit_AlwaysWrites ==
  /\ pc = "commit"
  /\ IF any_work_done
     THEN /\ diskReport' = [exists |-> TRUE,
                            content |-> createBuildReport(config, report.dependencies, report)]
          /\ log' = Append(log, Call("writeBuildReport", 0))
          /\ pc' = "cacheModules"
          /\ result' = result
     ELSE /\ pc' = "done"
          /\ result' = "NO_WORK"
          /\ UNCHANGED <<diskReport, log>>
  /\ UNCHANGED <<envVars, histVars, outputRom, tempRom, linked, report, i,
                 any_work_done, failed_dependency_report>>
  /\ UNCHANGED callVars

\* lines 160-168 and 184-187: nothing to do, or the report is written or removed
Commit ==
  /\ pc = "commit"
  /\ IF any_work_done
     THEN /\ IF ~failed_dependency_report
             THEN /\ diskReport' = [exists |-> TRUE,
                                    content |-> createBuildReport(config, report.dependencies, report)]
                  /\ log' = Append(log, Call("writeBuildReport", 0))
             ELSE /\ diskReport' = [exists |-> FALSE, content |-> EmptyReport]
                  /\ log' = Append(log, Call("removeBuildReport", 0))
          /\ pc' = "cacheModules"
          /\ result' = result
     ELSE /\ pc' = "done"
          /\ result' = "NO_WORK"
          /\ UNCHANGED <<diskReport, log>>
  /\ UNCHANGED <<envVars, histVars, outputRom, tempRom, linked, report, i,
                 any_work_done, failed_dependency_report>>
  /\ UNCHANGED callVars

\* cacheModules: the module outputs are copied to the old-symbols directory
CacheModules ==
  /\ pc = "cacheModules"
  /\ log' = Append(log, Call("cacheModules", 0))
  /\ oldSymbols' = oldSymbols \cup (report.module_outputs["m.asm"] \cap moduleDir)
  /\ pc' = "marker"
  /\ UNCHANGED <<config, files, levelsFolder, cleanupFile, moduleDir>>
  /\ UNCHANGED <<diskVars, histVars, report, i, any_work_done,
                 failed_dependency_report, result>>
  /\ UNCHANGED callVars

\* mutant: the temporary ROM is moved before the marker is written
WriteMarker_MovesFirst ==
  /\ pc = "marker"
  /\ log' = Append(log, Call("moveTempToOutput", 0))
  /\ outputRom' = tempRom
  /\ tempRom' = NoRom
  /\ pc' = "link"
  /\ UNCHANGED <<envVars, histVars, diskReport, linked, report, i,
                 any_work_done, failed_dependency_report, result>>
  /\ UNCHANGED callVars

\* Saver::writeMarkerToRom
WriteMarker ==
  /\ pc = "marker"
  /\ log' = Append(log, Call("writeMarkerToRom", 0))
  /\ tempRom' = [tempRom EXCEPT !.marker = TRUE]
  /\ pc' = "move"
  /\ UNCHANGED <<envVars, histVars, diskReport, outputRom, linked, report, i,
                 any_work_done, failed_dependency_report, result>>
  /\ UNCHANGED callVars

\* moveTempToOutput
MoveTempToOutput ==
  /\ pc = "move"
  /\ log' = Append(log, Call("moveTempToOutput", 0))
  /\ outputRom' = tempRom
  /\ tempRom' = NoRom
  /\ pc' = "link"
  /\ UNCHANGED <<envVars, histVars, diskReport, linked, report, i,
                 any_work_done, failed_dependency_report, result>>
  /\ UNCHANGED callVars

\* GraphicsUtil::linkOutputRomToProjectGraphics, for GFX and then for ExGFX
LinkGraphics ==
  /\ pc = "link"
  /\ log' = Append(log, Call("linkOutputRomToProjectGraphics", linked))
  /\ linked' = linked + 1
  /\ pc' = IF linked = 0 THEN "link" ELSE "removeTemp"
  /\ UNCHANGED <<envVars, histVars, diskReport, outputRom, tempRom, report, i,
                 any_work_done, failed_dependency_report, result>>
  /\ UNCHANGED callVars

\* lines 177-182: the temporary folder is removed and build returns
RemoveTemp ==
  /\ pc = "removeTemp"
  /\ log' = Append(log, Call("remove_all", 0))
  /\ tempRom' = NoRom
  /\ pc' = "done"
  /\ result' = "SUCCESS"
  /\ UNCHANGED <<envVars, histVars, diskReport, outputRom, linked, report, i,
                 any_work_done, failed_dependency_report>>
  /\ UNCHANGED callVars

\* the process is killed, or a filesystem call fails, in the middle of a run;
\* nothing of the run is left but what it wrote to disk. An interruption is
\* an event of the environment and counts as one of its changes
Crash ==
  /\ pc \notin {"idle", "done"}
  /\ changes < MaxChanges
  /\ changes' = changes + 1
  /\ pc' = "done"
  /\ result' = IF pc \in {"link", "removeTemp"} THEN "CrashedAfterMove" ELSE "Crashed"
  /\ report' = EmptyReport
  /\ i' = 0
  /\ any_work_done' = FALSE
  /\ failed_dependency_report' = FALSE
  /\ log' = << >>
  /\ UNCHANGED <<envVars, diskVars, run, changed, prev, start>>
  /\ UNCHANGED callVars

\* build has returned or thrown and the QuickBuilder is destroyed
Exit ==
  /\ pc = "done"
  /\ pc' = "idle"
  /\ prev' = [result |-> result, changed |-> FALSE, lost |-> failed_dependency_report]
  /\ result' = ""
  /\ report' = EmptyReport
  /\ i' = 0
  /\ any_work_done' = FALSE
  /\ failed_dependency_report' = FALSE
  /\ log' = << >>
  /\ linked' = 0
  /\ start' = [report |-> diskReport, rom |-> outputRom]
  /\ UNCHANGED <<envVars, diskReport, outputRom, tempRom, run, changes, changed>>
  /\ UNCHANGED callVars

Next ==
  \/ EnvTouch \/ EnvWriteDuringRun \/ EnvConfig \/ EnvLevels \/ EnvDelete
  \/ Construct
  \/ CheckRom \/ CheckRomSize \/ CheckFormat \/ CheckOrder \/ CheckLevels \/ CheckConfigDeps
  \/ Classify \/ CopyToTemp \/ CleanModule \/ Insert \/ Unchanged
  \/ Commit \/ CacheModules \/ WriteMarker \/ MoveTempToOutput \/ LinkGraphics \/ RemoveTemp
  \/ Crash \/ Exit

Spec == Init /\ [][Next]_vars

\* ------------------------------------------- hijacksGoneBad on its own
\* the vectors of (address, length) pairs the function is called with
MaxHijacks == 2
HijackPairs == { <<a, n>> : a \in {0, 1, 2}, n \in {0, 1, 2} }
HijackLists == UNION { [1 .. n -> HijackPairs] : n \in 0 .. MaxHijacks }

HijacksInit ==
  /\ StartState(1, <<GFX, PATCH, MODULE_M>>, BUILD_REPORT_VERSION, FALSE)
  /\ \E o \in HijackLists, n \in HijackLists :
       hijackCall = [old |-> o, new |-> n, returned |-> ""]

\* one call of QuickBuilder::hijacksGoneBad
CallHijacksGoneBad ==
  /\ hijackCall.returned = ""
  /\ hijackCall' = [hijackCall EXCEPT
                      !.returned = IF hijacksGoneBad(hijackCall.old, hijackCall.new)
                                   THEN "true" ELSE "false"]
  /\ UNCHANGED <<envVars, diskVars, runVars, histVars>>

HijacksNext == CallHijacksGoneBad

HijacksSpec == HijacksInit /\ [][HijacksNext]_vars

\* ------------------------------------------------------------ properties
LastOp == IF log = << >> THEN "" ELSE log[Len(log)].op
Ops == [k \in 1 .. Len(log) |-> log[k].op]
Did(op) == \E k \in 1 .. Len(log) : log[k].op = op
DidAt(op, e) == \E k \in 1 .. Len(log) : log[k] = Call(op, e)
Returned(r) == pc = "done" /\ result = r
Crashes == {"Crashed", "CrashedAfterMove"}

\* C1: whenever build returns SUCCESS (and no resource changed during the
\* run), the output ROM holds the bytes a full build of the same
\* configuration and resources produces.
C1_QuickBuildEqualsFullBuild ==
  (Returned("SUCCESS") /\ ~changed)
    => outputRom.bytes = FullBuildBytes(config.build_order, files, Len(config.build_order))

\* C2: a run interrupted before the output ROM is replaced leaves the
\* previous output ROM and the previous build report on disk.
C2_InterruptLeavesPrevious ==
  Returned("Crashed") => (outputRom = start.rom /\ diskReport = start.report)

IsPrefix(s, t) == Len(s) <= Len(t) /\ \A k \in 1 .. Len(s) : s[k] = t[k]
OpsAmong(names) == LET sel == SelectSeq(log, LAMBDA c : c.op \in names)
                   IN [k \in 1 .. Len(sel) |-> sel[k].op]

CommitNames ==
  {"writeBuildReport", "removeBuildReport", "cacheModules", "writeMarkerToRom",
   "moveTempToOutput", "linkOutputRomToProjectGraphics", "remove_all"}
CommitSequence(first) ==
  << first, "cacheModules", "writeMarkerToRom", "moveTempToOutput",
     "linkOutputRomToProjectGraphics", "linkOutputRomToProjectGraphics", "remove_all" >>

\* C3: the output ROM is replaced only by moveTempToOutput, which runs only
\* after every entry was processed, after the report was written (or removed,
\* when a dependency report was lost) and after the marker was written; the
\* commit steps run in the order report, cacheModules, marker, move, two
\* graphics links, temporary folder removal, and SUCCESS ends that sequence.
C3_CommitOrder ==
  LET first == IF failed_dependency_report THEN "removeBuildReport" ELSE "writeBuildReport"
      done == OpsAmong(CommitNames)
  IN /\ IsPrefix(done, CommitSequence(first))
     /\ done # << >> =>
          /\ any_work_done
          /\ i = Len(report.dependencies) + 1
          /\ \A e \in 1 .. Len(report.dependencies) : DidAt("classify", e)
          /\ IF failed_dependency_report
             THEN ~diskReport.exists
             ELSE diskReport.exists /\ diskReport.content.dependencies = report.dependencies
     /\ (pc # "idle" /\ outputRom # start.rom)
          => (Did("moveTempToOutput") \/ result = "CrashedAfterMove")
     /\ Returned("SUCCESS") => done = CommitSequence(first)

C3_Witness == Returned("SUCCESS") /\ outputRom # start.rom

\* C4 as claimed: a second run without any change since the first run
\* started returns NO_WORK, whatever completed outcome the first run had.
C4_SecondRunNoWork ==
  (pc = "done" /\ result \notin Crashes /\ ~prev.changed /\ ~changed
     /\ prev.result \in {"SUCCESS", "NO_WORK"})
    => result = "NO_WORK"

\* C4 amended: a second run without any change since the first run started
\* returns NO_WORK when the first run returned NO_WORK or returned SUCCESS
\* with every dependency report found, and ends with MustRebuild when the
\* first run returned SUCCESS after a dependency report was lost.
C4_SecondRunNoWorkUnlessReportLost ==
  (pc = "done" /\ result \notin Crashes /\ ~prev.changed /\ ~changed)
    => /\ (prev.result = "NO_WORK" \/ (prev.result = "SUCCESS" /\ ~prev.lost))
            => result = "NO_WORK"
       /\ (prev.result = "SUCCESS" /\ prev.lost) => result = "MustRebuild"

C4_Witness ==
  Returned("NO_WORK") /\ prev.result = "SUCCESS" /\ ~prev.lost /\ ~prev.changed /\ ~changed

\* C5: the rom_size check passes exactly when the configured and the
\* recorded rom_size are both unset or both set to the same value, and
\* raises MustRebuild otherwise.
C5_RomSizeCheck ==
  (LastOp = "checkRebuildRomSize" /\ result \notin Crashes)
    => IF report.rom_size = config.rom_size
       THEN pc = "checkFormat" /\ result = ""
       ELSE Returned("MustRebuild")

CheckNames ==
  {"exists", "checkRebuildRomSize", "checkBuildReportFormat", "checkBuildOrderChange",
   "checkProblematicLevelChanges", "checkRebuildConfigDependencies"}
CheckSequence ==
  << "exists", "checkRebuildRomSize", "checkBuildReportFormat", "checkBuildOrderChange" >>
  \o (IF config.levels THEN << "checkProblematicLevelChanges" >> ELSE << >>)
  \o << "checkRebuildConfigDependencies" >>

\* C6: the per-report checks run in the fixed order; a run that one of them
\* ends, ends with MustRebuild (the levels check may instead end it with the
\* fatal Insertion error); and no entry is classified, no insertable invoked
\* and no temporary ROM created unless all of them passed.
C6_ChecksInOrderEndWithMustRebuild ==
  /\ IsPrefix(OpsAmong(CheckNames), CheckSequence)
  /\ (pc = "done" /\ result \notin Crashes /\ LastOp \in CheckNames)
       => \/ result = "MustRebuild"
          \/ LastOp = "checkProblematicLevelChanges" /\ result = "InsertionException"
  /\ (Did("classify") \/ Did("copy") \/ Did("init") \/ Did("cleanModule"))
       => OpsAmong(CheckNames) = CheckSequence

\* C7: without a build report file the constructor raises MustRebuild and
\* nothing else happens: no check, no insertion, no write to the output ROM
\* or to the report.
C7_NoReportMustRebuild ==
  (pc # "idle" /\ ~start.report.exists)
    => /\ Returned("MustRebuild")
       /\ log = << Call("QuickBuilder", 0) >>
       /\ outputRom = start.rom
       /\ diskReport = start.report
       /\ ~any_work_done

C7_Witness == pc = "done" /\ ~start.report.exists /\ outputRom.exists

SameOrder(a, b) == Len(a) = Len(b) /\ \A k \in 1 .. Len(a) : a[k] = b[k]

\* C8: checkBuildOrderChange passes if and only if the configured and the
\* recorded build order have the same length and equal descriptors at every
\* position, and raises MustRebuild otherwise.
C8_BuildOrderCheck ==
  (LastOp = "checkBuildOrderChange" /\ result \notin Crashes)
    => IF SameOrder(config.build_order, report.build_order)
       THEN pc \in {"checkLevels", "checkConfigDeps"} /\ result = ""
       ELSE Returned("MustRebuild")

C8_Witness ==
  /\ LastOp = "checkBuildOrderChange" /\ Returned("MustRebuild")
  /\ Len(config.build_order) = Len(report.build_order)

CurrentLevelNumbers ==
  { n \in 1 .. 2 : \E f \in levelsFolder.files : Extension(f) = ".mwl" /\ LevelNumber(f) = n }
Undetermined == \E f \in levelsFolder.files : Extension(f) = ".mwl" /\ LevelNumber(f) = 0

\* C9: with levels configured, a missing folder or a level file without a
\* determinable number raises the Insertion error; otherwise the check passes
\* if and only if the level numbers of the *.mwl files present are a superset
\* of inserted_levels and raises MustRebuild if not; so a run that returns
\* SUCCESS with levels configured has inserted_levels within the present ones.
C9_LevelsCheck ==
  /\ ~config.levels => ~Did("checkProblematicLevelChanges")
  /\ (LastOp = "checkProblematicLevelChanges" /\ result \notin Crashes)
       => IF ~levelsFolder.exists \/ Undetermined THEN Returned("InsertionException")
          ELSE IF report.inserted_levels \subseteq CurrentLevelNumbers
               THEN pc = "checkConfigDeps" /\ result = ""
               ELSE Returned("MustRebuild")
  /\ (Returned("SUCCESS") /\ config.levels)
       => report.inserted_levels \subseteq CurrentLevelNumbers

C9_Witness ==
  /\ Returned("SUCCESS") /\ config.levels
  /\ report.inserted_levels # CurrentLevelNumbers

Covered(hijacks) ==
  { a \in 0 .. (NumAddr + 2) :
      \E k \in 1 .. Len(hijacks) : hijacks[k][1] <= a /\ a < hijacks[k][1] + hijacks[k][2] }
OldHijacks(e) == start.report.content.dependencies[e].hijacks
GoneBadAt(e) == Returned("MustRebuild") /\ log[Len(log)] = Call("getHijacks", e)

\* C10: a reinserted patch whose new hijacks no longer cover a previously
\* written address ends the run with MustRebuild and nothing is committed;
\* otherwise the addresses of its previous hijacks are a subset of those of
\* the new hijacks, which replace the entry's hijacks.
C10_ReinsertedPatchHijacks ==
  \A e \in 1 .. Len(report.dependencies) :
    DidAt("getHijacks", e) =>
      IF GoneBadAt(e)
      THEN /\ ~(Covered(OldHijacks(e)) \subseteq Covered(PatchHijacks(files["p.asm"])))
           /\ diskReport = start.report
           /\ outputRom = start.rom
      ELSE /\ Covered(OldHijacks(e)) \subseteq Covered(report.dependencies[e].hijacks)
           /\ ~changed => report.dependencies[e].hijacks = PatchHijacks(files["p.asm"])

C10_Witness ==
  /\ Returned("SUCCESS")
  /\ \E e \in 1 .. Len(report.dependencies) :
       /\ DidAt("getHijacks", e)
       /\ Covered(OldHijacks(e)) # Covered(report.dependencies[e].hijacks)

\* C11: hijacksGoneBad(old, new) returns true if and only if some address
\* inside a range of old lies in no range of new; it returns false when old
\* is empty or holds only zero-length ranges, and when every address of old
\* is covered by new, however the ranges are split, overlap or are ordered
\* and whatever else new writes.
C11_HijacksGoneBad ==
  hijackCall.returned # "" =>
    LET olds == hijackCall.old
        news == hijackCall.new
        uncovered ==
          \E k \in 1 .. Len(olds), a \in 0 .. (NumAddr + 2) :
            /\ olds[k][1] <= a /\ a < olds[k][1] + olds[k][2]
            /\ ~ \E m \in 1 .. Len(news) :
                   news[m][1] <= a /\ a < news[m][1] + news[m][2]
    IN /\ (hijackCall.returned = "true") <=> uncovered
       /\ (\A k \in 1 .. Len(olds) : olds[k][2] = 0) => hijackCall.returned = "false"
       /\ Covered(olds) \subseteq Covered(news) => hijackCall.returned = "false"

C11_Witness ==
  /\ hijackCall.returned = "false"
  /\ Covered(hijackCall.old) # {}
  /\ Covered(hijackCall.new) # Covered(hijackCall.old)
  /\ Len(hijackCall.new) < Len(hijackCall.old)

\* the REINSERT resource dependencies of every entry of rep record the
\* timestamps the files have now
ReinsertTimestampsCurrent(rep) ==
  \A e \in 1 .. Len(rep.dependencies) :
    \A r \in 1 .. Len(rep.dependencies[e].resource_dependencies) :
      LET dep == rep.dependencies[e].resource_dependencies[r]
      IN dep.policy = "REINSERT" => dep.last_write_time = files[dep.dependent_path]

Reinserted(e) == DidAt("insertWithDependencies", e) \/ DidAt("insert", e)

Parallel(rep) ==
  /\ Len(rep.dependencies) = Len(rep.build_order)
  /\ \A k \in 1 .. Len(rep.dependencies) :
       rep.dependencies[k].descriptor = rep.build_order[k]

Descriptors(rep) == [k \in 1 .. Len(rep.dependencies) |-> rep.dependencies[k].descriptor]

\* C13: every report on disk has dependencies parallel to build_order (same
\* length, same descriptor at every index), and during a run the entries of
\* the report keep their number, order and descriptors, whatever is
\* reinserted.
C13_DependenciesParallel ==
  /\ diskReport.exists => Parallel(diskReport.content)
  /\ (pc # "idle" /\ result \notin Crashes /\ start.report.exists)
       => Descriptors(report) = Descriptors(start.report.content)

C13_Witness ==
  /\ Returned("SUCCESS")
  /\ diskReport.exists /\ diskReport # start.report
  /\ \E e, u \in 1 .. Len(report.dependencies) : e # u /\ Reinserted(e) /\ Reinserted(u)

\* C14: in a run in which an insertable signalled NoDependencyReportFound,
\* writeBuildReport is never called; the run does not end with NO_WORK; when
\* it returns SUCCESS the report was removed and the temporary ROM was moved
\* to the output ROM; and the invocation after it ends with MustRebuild in
\* the constructor.
C14_LostReportDeletesReport ==
  /\ failed_dependency_report
       => /\ ~Did("writeBuildReport")
          /\ any_work_done /\ result # "NO_WORK"
          /\ Did("removeBuildReport") => ~diskReport.exists
  /\ (Returned("SUCCESS") /\ failed_dependency_report)
       => /\ Did("removeBuildReport") /\ ~diskReport.exists
          /\ Did("moveTempToOutput") /\ outputRom.exists /\ outputRom.marker
  /\ (pc = "done" /\ result \notin Crashes /\ prev.result = "SUCCESS" /\ prev.lost)
       => Returned("MustRebuild") /\ log = << Call("QuickBuilder", 0) >>

C14_Witness ==
  /\ Returned("MustRebuild") /\ prev.result = "SUCCESS" /\ prev.lost
  /\ outputRom # NoRom

\* every per-report check was made and passed
ChecksPassed ==
  /\ OpsAmong(CheckNames) = CheckSequence
  /\ ~(pc = "done" /\ LastOp \in CheckNames)

\* no REBUILD resource check of the loop has ended the run
RebuildScansPassed == ~(Returned("MustRebuild") /\ LastOp = "classify")

NoneReinserted == ~Did("config_changed") /\ ~Did("resource_changed")

\* the old outputs of every module of the report are in the old-symbols directory
OldOutputsPresent ==
  \A e \in 1 .. Len(report.dependencies) :
    report.dependencies[e].descriptor.symbol = "Module"
      => report.module_outputs[report.dependencies[e].descriptor.name] \subseteq oldSymbols

NoWorkFrame ==
  /\ ~Did("init") /\ ~Did("insertWithDependencies") /\ ~Did("insert")
  /\ ~Did("cleanModule") /\ ~Did("copy")
  /\ ~Did("writeBuildReport") /\ ~Did("removeBuildReport")
  /\ diskReport = start.report
  /\ outputRom = start.rom

\* C15 as claimed: a run returns NO_WORK if and only if all per-report
\* checks (the REBUILD resource scans included) pass and no entry is
\* classified as reinsert; then no insertable is constructed or invoked, no
\* temporary ROM is created, and the report and the output ROM on disk are
\* left as they were.
C15_NoWorkIffNothingToReinsert ==
  (pc = "done" /\ result \notin Crashes)
    => /\ (result = "NO_WORK") <=> (ChecksPassed /\ RebuildScansPassed /\ NoneReinserted)
       /\ result = "NO_WORK" => NoWorkFrame

\* C15 amended: a run returns NO_WORK if and only if all per-report checks
\* pass, no entry is classified as reinsert and the old outputs of every
\* module entry are present in the old-symbols directory (a missing one ends
\* the run with MustRebuild); then no insertable is constructed or invoked,
\* no temporary ROM is created, and the report and the output ROM on disk
\* are left as they were.
C15_NoWorkIffNothingToReinsertAndOutputsCached ==
  (pc = "done" /\ result \notin Crashes)
    => /\ (result = "NO_WORK")
            <=> (ChecksPassed /\ RebuildScansPassed /\ NoneReinserted /\ OldOutputsPresent)
       /\ (ChecksPassed /\ RebuildScansPassed /\ NoneReinserted /\ ~OldOutputsPresent)
            => result = "MustRebuild"
       /\ result = "NO_WORK" => NoWorkFrame

C15_Witness ==
  /\ Returned("NO_WORK") /\ Did("copyOldModuleOutput")
  /\ \A e \in 1 .. Len(report.dependencies) : DidAt("classify", e)

\* entry e of rep has a REBUILD resource dependency whose file appeared,
\* disappeared or has another timestamp
RebuildResourceMismatch(rep, e) ==
  \E r \in 1 .. Len(rep.dependencies[e].resource_dependencies) :
    LET dep == rep.dependencies[e].resource_dependencies[r]
    IN dep.policy = "REBUILD" /\ dep.last_write_time # files[dep.dependent_path]

\* C16: entry i is classified only when no REBUILD resource dependency of
\* the entries i..end mismatches the filesystem; a run the scan ends, ends
\* with MustRebuild because of an entry at i or later, never because of an
\* entry before i; and a mismatch present when the run starts ends the run
\* at the first entry, before any insertable is invoked.
C16_ForwardRebuildScan ==
  /\ pc \in {"reinsert", "unchanged"}
       => \A e \in i .. Len(report.dependencies) : ~RebuildResourceMismatch(report, e)
  /\ (pc = "done" /\ LastOp = "classify")
       => /\ result = "MustRebuild"
          /\ \E e \in i .. Len(report.dependencies) : RebuildResourceMismatch(report, e)
  /\ (Did("classify") /\ ~changed
        /\ \E e \in 1 .. Len(start.report.content.dependencies) :
              RebuildResourceMismatch(start.report.content, e))
       => /\ Returned("MustRebuild")
          /\ log[Len(log)] = Call("classify", 1)
          /\ ~Did("init") /\ ~Did("copy")

\* a run went on to its end although a REBUILD resource of an entry
\* already processed had changed
C16_Witness ==
  /\ pc = "done" /\ result \in {"SUCCESS", "NO_WORK"}
  /\ \E e \in 1 .. Len(report.dependencies) : RebuildResourceMismatch(report, e)

ReinsertConfigMismatch(entry) ==
  \E c \in 1 .. Len(entry.configuration_dependencies) :
    LET dep == entry.configuration_dependencies[c]
    IN dep.policy = "REINSERT" /\ dep.value # config.keys[dep.config_keys]

ReinsertResourceMismatch(entry) ==
  \E r \in 1 .. Len(entry.resource_dependencies) :
    LET dep == entry.resource_dependencies[r]
    IN dep.policy = "REINSERT" /\ dep.last_write_time # files[dep.dependent_path]

\* C17: an entry is classified as reinsert if and only if one of its
\* REINSERT configuration dependencies has another value than recorded or
\* one of its REINSERT resource dependencies has another timestamp than
\* recorded (a missing file against a timestamp included); the reason
\* reported is the configuration whenever a configuration dependency
\* mismatches, and a resource only when none does.
C17_ReinsertClassification ==
  /\ pc = "unchanged"
       => /\ ~ReinsertConfigMismatch(Entry) /\ ~ReinsertResourceMismatch(Entry)
          /\ log[Len(log)] = Call("classify", i)
  /\ pc = "reinsert"
       => /\ ReinsertConfigMismatch(Entry) \/ ReinsertResourceMismatch(Entry)
          /\ log[Len(log) - 1] = Call("classify", i)
          /\ log[Len(log)] = Call(IF ReinsertConfigMismatch(Entry) THEN "config_changed"
                                  ELSE "resource_changed", i)

C17_Witness ==
  /\ pc = "reinsert" /\ LastOp = "resource_changed"
  /\ \E r \in 1 .. Len(Entry.resource_dependencies) :
       LET dep == Entry.resource_dependencies[r]
       IN dep.policy = "REINSERT" /\ files[dep.dependent_path] = NoTime

\* entry e of rep has a REBUILD configuration dependency whose value is not
\* the configured one
RebuildConfigMismatch(rep, e) ==
  \E c \in 1 .. Len(rep.dependencies[e].configuration_dependencies) :
    LET dep == rep.dependencies[e].configuration_dependencies[c]
    IN dep.policy = "REBUILD" /\ dep.value # config.keys[dep.config_keys]

\* C18: the REBUILD configuration dependencies of all entries are compared
\* with the configuration once, before the loop: the check ends the run with
\* MustRebuild if any entry has a mismatch and lets the loop start at the
\* first entry if none has, so no entry is classified and no insertable
\* invoked in a run whose report has such a mismatch.
C18_RebuildConfigCheck ==
  /\ Len(OpsAmong({"checkRebuildConfigDependencies"})) <= 1
  /\ (LastOp = "checkRebuildConfigDependencies" /\ result \notin Crashes)
       => IF \E e \in 1 .. Len(report.dependencies) : RebuildConfigMismatch(report, e)
          THEN Returned("MustRebuild")
          ELSE pc = "loop" /\ i = 1 /\ result = ""
  /\ (Did("classify") \/ Did("copy") \/ Did("cleanModule") \/ Did("init"))
       => /\ Did("checkRebuildConfigDependencies")
          /\ \A e \in 1 .. Len(start.report.content.dependencies) :
               ~RebuildConfigMismatch(start.report.content, e)

\* the check ended the run because of an entry that is not the first
C18_Witness ==
  /\ Returned("MustRebuild") /\ LastOp = "checkRebuildConfigDependencies"
  /\ ~RebuildConfigMismatch(report, 1)

\* the calls a step adds to the log
NewCalls == SubSeq(log', Len(log) + 1, Len(log'))

SameDependencyLists(e) ==
  /\ report'.dependencies[e].configuration_dependencies
       = report.dependencies[e].configuration_dependencies
  /\ report'.dependencies[e].resource_dependencies
       = report.dependencies[e].resource_dependencies

C19_Step ==
  \* insertWithDependencies is called only before a dependency report was
  \* lost, insert only after, and never for an entry that had the other call
  /\ \A k \in 1 .. Len(NewCalls) :
       /\ NewCalls[k].op = "insertWithDependencies" => ~failed_dependency_report
       /\ NewCalls[k].op = "insert"
            => failed_dependency_report /\ ~DidAt("insertWithDependencies", NewCalls[k].at)
  \* the entry that signals NoDependencyReportFound keeps its lists
  /\ (~failed_dependency_report /\ failed_dependency_report')
       => /\ SameDependencyLists(i)
          /\ \E k \in 1 .. Len(NewCalls) : NewCalls[k] = Call("insertWithDependencies", i)
  \* once lost, lost until the run is over, and no list changes any more
  /\ (failed_dependency_report /\ pc' # "idle" /\ result' \notin Crashes)
       => /\ failed_dependency_report'
          /\ Len(report'.dependencies) = Len(report.dependencies)
          /\ \A e \in 1 .. Len(report.dependencies) : SameDependencyLists(e)

\* C19: once insertWithDependencies has signalled NoDependencyReportFound,
\* the flag stays set for the rest of the run, the entry that signalled
\* keeps its dependency lists and gets no insert call, every later
\* reinsertion uses insert() and never insertWithDependencies(), and no
\* entry's configuration_dependencies or resource_dependencies change.
C19_LostReportSticky == [][C19_Step]_vars

C19_Witness ==
  /\ Returned("SUCCESS") /\ failed_dependency_report
  /\ Did("insert") /\ Did("insertWithDependencies")

ClassifiedReinsert(e) == DidAt("config_changed", e) \/ DidAt("resource_changed", e)

\* insertWithDependencies was called for entry e and returned a dependency set
ReportedDependencies(e) ==
  /\ DidAt("insertWithDependencies", e)
  /\ ~(Returned("InsertionException") /\ log[Len(log)] = Call("insertWithDependencies", e))
  /\ ~(failed_dependency_report
        /\ \A u \in (e + 1) .. Len(report.dependencies) : ~DidAt("insertWithDependencies", u))

OldEntry(e) == start.report.content.dependencies[e]

\* C20: during a run the report in memory differs from the report loaded
\* only in configuration_dependencies, resource_dependencies and hijacks of
\* entries classified as reinsert; an entry whose insertWithDependencies
\* returned has exactly the declared configuration dependencies and exactly
\* the returned resource dependencies; any other reinserted entry keeps its
\* lists, and only a patch gets new hijacks.
C20_ReportFrame ==
  (pc # "idle" /\ result \notin Crashes /\ start.report.exists)
    => /\ [report EXCEPT !.dependencies = << >>]
            = [start.report.content EXCEPT !.dependencies = << >>]
       /\ Len(report.dependencies) = Len(start.report.content.dependencies)
       /\ \A e \in 1 .. Len(report.dependencies) :
            LET entry == report.dependencies[e]
            IN /\ entry.descriptor = OldEntry(e).descriptor
               /\ ~ClassifiedReinsert(e) => entry = OldEntry(e)
               /\ entry.descriptor.symbol # "Patch" => entry.hijacks = OldEntry(e).hijacks
               /\ IF ReportedDependencies(e)
                  THEN /\ entry.configuration_dependencies
                            = getConfigurationDependencies(entry.descriptor, config)
                       /\ ~changed => entry.resource_dependencies
                                         = determineDependencies(entry.descriptor, files)
                  ELSE /\ entry.configuration_dependencies
                            = OldEntry(e).configuration_dependencies
                       /\ entry.resource_dependencies = OldEntry(e).resource_dependencies

C20_Witness ==
  /\ Returned("SUCCESS")
  /\ \E e, u \in 1 .. Len(report.dependencies) :
       /\ ReportedDependencies(e) /\ ~ClassifiedReinsert(u)
       /\ Len(report.dependencies[e].resource_dependencies)
            # Len(OldEntry(e).resource_dependencies)
       /\ report.dependencies[e].hijacks # OldEntry(e).hijacks

InsertableCalls == {"init", "insertWithDependencies", "insert", "getHijacks"}

C21_Step ==
  \* cleanup is for the modules classified as reinsert, and for each of them
  /\ (pc' = "clean" /\ pc # "clean")
       => /\ report.dependencies[i].descriptor.symbol = "Module"
          /\ ClassifiedReinsert(i) /\ tempRom'.exists
  /\ (pc' = "insert" /\ pc # "insert" /\ report.dependencies[i].descriptor.symbol = "Module")
       => pc = "clean"
  \* the insertable of a module is invoked only after its cleanup
  /\ \A k \in 1 .. Len(NewCalls) :
       (NewCalls[k].op \in InsertableCalls
          /\ report.dependencies[NewCalls[k].at].descriptor.symbol = "Module")
         => /\ DidAt("cleanModule", NewCalls[k].at)
            /\ ~DidAt("init", NewCalls[k].at)
  \* what the cleanup does
  /\ (pc = "clean" /\ result' \notin Crashes)
       => /\ log' = Append(log, Call("cleanModule", i))
          /\ outputRom' = outputRom /\ diskReport' = diskReport
          /\ ~cleanupFile.exists => pc' = "done"
          /\ IF pc' = "done"
             THEN /\ result' \in {"MustRebuild", "ToolNotFoundException"}
                  /\ ~cleanupFile.exists => result' = "MustRebuild"
                  /\ tempRom' = tempRom
             ELSE /\ pc' = "insert"
                  /\ tempRom'.bytes = [a \in Addr |-> IF a \in cleanupFile.addrs
                                                       THEN Clean ELSE tempRom.bytes[a]]

\* C21: a module classified as reinsert is cleaned in the temporary ROM
\* before its insertable is initialised or inserted; a missing cleanup file
\* or a failed autoclean patch ends the run with MustRebuild (a missing
\* assembler library with ToolNotFound) without any call of the insertable
\* and leaves the temporary ROM as it was.
C21_ModuleCleanedFirst == [][C21_Step]_vars

\* the cleanup of a module failed after an earlier entry had been reinserted
C21_Witness ==
  /\ Returned("MustRebuild") /\ LastOp = "cleanModule"
  /\ cleanupFile.exists
  /\ \E e \in 1 .. Len(report.dependencies) : Reinserted(e)

ModuleOutputs(e) == report.module_outputs[report.dependencies[e].descriptor.name]

\* C22: old module outputs are copied back exactly for the Module entries
\* classified as unchanged: once such an entry is processed its listed
\* files are in the module output directory; when a listed file is missing
\* from the old-symbols directory the run ends with MustRebuild, whether or
\* not earlier entries were reinserted, and neither the report nor the
\* output ROM on disk is touched.
C22_UnchangedModuleOutputs ==
  \A e \in 1 .. Len(report.dependencies) :
    /\ DidAt("copyOldModuleOutput", e)
         <=> /\ report.dependencies[e].descriptor.symbol = "Module"
             /\ DidAt("classify", e) /\ ~ClassifiedReinsert(e)
             /\ ~(e = i /\ pc = "unchanged")
             /\ ~(e = i /\ Returned("MustRebuild") /\ LastOp = "classify")
    /\ DidAt("copyOldModuleOutput", e)
         => IF ModuleOutputs(e) \subseteq oldSymbols
            THEN /\ ModuleOutputs(e) \subseteq moduleDir
                 /\ i > e
                 /\ ~(Returned("MustRebuild")
                      /\ log[Len(log)] = Call("copyOldModuleOutput", e))
            ELSE /\ Returned("MustRebuild")
                 /\ log[Len(log)] = Call("copyOldModuleOutput", e)
                 /\ OpsAmong(CommitNames) = << >>
                 /\ diskReport = start.report
                 /\ outputRom = start.rom

\* an old module output was missing after an earlier entry had been reinserted
C22_Witness ==
  /\ Returned("MustRebuild") /\ LastOp = "copyOldModuleOutput"
  /\ \E e \in 1 .. Len(report.dependencies) : Reinserted(e)
  /\ tempRom.exists /\ tempRom.bytes # outputRom.bytes

\* position of the first call of op in the log, 0 when there is none
FirstCall(op) ==
  IF Did(op) THEN CHOOSE k \in 1 .. Len(log) :
                    log[k].op = op /\ \A j \in 1 .. (k - 1) : log[j].op # op
  ELSE 0

Thrown == pc = "done" /\ result \notin ({"SUCCESS", "NO_WORK"} \cup Crashes)

\* C23: the previous output ROM is copied to the temporary ROM at most once
\* in a run, at the first entry classified as reinsert and before any
\* cleanup or call of an insertable; until the commit the output ROM and
\* the report on disk are what they were when the run started, so they are
\* in every run that MustRebuild or a fatal error ends, at any entry.
C23_OnlyTemporaryRomTouched ==
  /\ Len(OpsAmong({"copy"})) <= 1
  /\ Did("copy") <=> \E e \in 1 .. Len(report.dependencies) : ClassifiedReinsert(e) /\ ~(e = i /\ pc = "reinsert")
  /\ Did("copy")
       => LET c == FirstCall("copy")
          IN /\ ClassifiedReinsert(log[c].at)
             /\ \A u \in 1 .. (log[c].at - 1) : ~ClassifiedReinsert(u)
             /\ \A k \in 1 .. (c - 1) : log[k].op \notin (InsertableCalls \cup {"cleanModule"})
  /\ (\E k \in 1 .. Len(log) : log[k].op \in (InsertableCalls \cup {"cleanModule"}))
       => Did("copy")
  /\ (pc # "idle" /\ result \notin Crashes /\ OpsAmong(CommitNames) = << >>)
       => outputRom = start.rom /\ diskReport = start.report
  /\ Thrown => /\ OpsAmong(CommitNames) = << >>
                /\ outputRom = start.rom /\ diskReport = start.report

\* a fatal error ended the run after an earlier entry had been reinserted
\* into the temporary ROM
C23_Witness ==
  /\ Returned("InsertionException")
  /\ \E e \in 1 .. Len(report.dependencies) : Reinserted(e) /\ e < i
  /\ tempRom.exists /\ tempRom.bytes # outputRom.bytes

====
